---- MODULE Spec2Model ----
(***************************************************************************)
(* A model of peewee_momoko.py: the asynchronous execution layer that runs *)
(* peewee queries on a momoko connection pool under tornado coroutines.    *)
(*                                                                         *)
(* Every coroutine is modelled at the granularity of its suspension points *)
(* (the backend round trips): the code between two suspension points runs  *)
(* synchronously on the IOLoop and is one atomic step.  A coroutine that   *)
(* is called runs synchronously up to its first round trip, so issuing the *)
(* statement is part of the step that makes the call.                      *)
(*                                                                         *)
(* The module holds five state machines over disjoint groups of variables, *)
(* each with its own specification:                                        *)
(*   SpecGoc     AsyncModel.get_or_create (with get and create)            *)
(*   SpecSave    AsyncModel.save (with AsyncInsertQuery.execute)           *)
(*   SpecDelete  AsyncModel.delete_instance                                *)
(*   SpecExec    PostgresqlAsyncDatabase.execute_sql                       *)
(*   SpecQuery   AsyncSelectQuery and AsyncRawQuery                        *)
(***************************************************************************)
EXTENDS Integers, Sequences, FiniteSets, TLC

(***************************************************************************)
(* Bounds of the model.                                                    *)
(***************************************************************************)
NumCallers == 2      \* concurrent get_or_create callers
MaxKey == 2          \* key values 1..MaxKey (unique column / primary key)
MaxDeps == 2         \* dependent relations of the root row's table
MaxDepRows == 2      \* rows per dependent relation
MaxCalls == 2        \* successive execute_sql calls
MaxRows == 2         \* rows a query's statement selects
MaxMarks == 2        \* changes made to one query
MaxQueryCalls == 2   \* successive operations on one query

VARIABLES
  \* ---- get_or_create ----
  table,        \* rows of the model's table: records [pk, key], key unique
  table0,       \* the rows the table held initially (history)
  nextPk,       \* next value of the primary-key sequence
  gpc,          \* per caller: position in get_or_create
  gcrit,        \* per caller: the criteria (key value) of the call
  gres,         \* per caller: what get_or_create delivered to its caller
  gselects,     \* per caller: selects issued to the backend by the call
  gcreates,     \* per caller: creates (inserts) issued by the call
  bg,           \* per caller: state of the create() coroutine the call started
  bgPk,         \* per caller: primary key of the row that create() inserted
  \* ---- save ----
  composite_key,    \* model meta: the primary key is a CompositeKey
  insert_returning, \* database capability: INSERT ... RETURNING
  pk_sequence,      \* _get_pk_sequence(model): the key column has a sequence
  data,             \* instance._data: field name -> value (partial)
  dirty,            \* instance._dirty: set of field names
  sinserted,        \* key of the row the backend inserted for this save
  spc,              \* position in save
  sforce,           \* force_insert argument
  sonly,            \* only argument (set of field names; {} when not given)
  stmt,             \* the statement save issued
  sprevPk,          \* _get_pk_value() at entry to save
  sdirty0,          \* the dirty set at entry to save (history)
  pk_from_cursor,   \* what AsyncInsertQuery.execute delivered
  sres,             \* what save delivered to its caller
  \* ---- delete_instance ----
  deps,         \* list(self.dependencies(delete_nullable)): records [rel, null]
  depRows,      \* per dependent relation: rows, records [id, ref]
  depRows0,     \* the dependent rows at the start (history)
  rootRows,     \* primary keys of the rows of the root table
  dpc,          \* position in delete_instance
  drecursive,   \* recursive argument
  dnullable,    \* delete_nullable argument
  dqueue,       \* dependencies still to iterate (reversed order)
  dcur,         \* the dependency whose statement is in flight
  dlog,         \* statements issued and completed, in order
  dres,         \* what delete_instance delivered
  \* ---- execute_sql ----
  autocommit,   \* database.get_autocommit()
  propagate,    \* what sql_error_handler answers (TRUE: re-raise)
  epc,          \* position in execute_sql
  erc,          \* require_commit argument
  eac,          \* get_autocommit() as the call read it
  emode,        \* how the statement was handed to the pool
  eops,         \* what the backend has done for the call, in order
  hookSeen,     \* errors sql_error_handler has been consulted with
  eraised,      \* the error the backend raised for the call
  eres,         \* what execute_sql delivered
  ecalls,       \* execute_sql calls made so far
  \* ---- select and raw queries ----
  qkind,        \* "select" (AsyncSelectQuery) or "raw" (AsyncRawQuery)
  wrapper_len,  \* the installed peewee's result wrapper defines __len__
  dbrows,       \* the rows the query's statement selects, in order
  q_dirty,      \* query._dirty (select queries)
  q_qr,         \* query._qr: the cached result wrapper, or none
  qver,         \* number of changes made to the query (its current state)
  qmarked,      \* changed since the last statement execute() issued (history)
  qraced,       \* a change was made while execute() was suspended (history)
  qpc,          \* position of the operation on the query
  qop,          \* the operation in progress or last completed
  qres,         \* what the operation delivered
  qcalls,       \* operations called so far
  qstmts,       \* statements issued to the backend for the query so far
  qorphan       \* state of a coroutine started and not waited for

gocVars == <<table, table0, nextPk, gpc, gcrit, gres, gselects, gcreates, bg, bgPk>>
saveVars == <<composite_key, insert_returning, pk_sequence, data, dirty, sinserted, spc,
              sforce, sonly, stmt, sprevPk, sdirty0, pk_from_cursor, sres>>
delVars == <<deps, depRows, depRows0, rootRows, dpc, drecursive, dnullable,
             dqueue, dcur, dlog, dres>>
execVars == <<autocommit, propagate, epc, erc, eac, emode, eops, hookSeen, eraised, eres, ecalls>>
queryVars == <<qkind, wrapper_len, dbrows, q_dirty, q_qr, qver, qmarked, qraced,
               qpc, qop, qres, qcalls, qstmts, qorphan>>
vars == <<gocVars, saveVars, delVars, execVars, queryVars>>

(***************************************************************************)
(* Python values: None, an integer, a list, and a tornado Future that has  *)
(* been handed over without being yielded on.                              *)
(***************************************************************************)
PyNone == [t |-> "none"]
PyInt(v) == [t |-> "int", v |-> v]
PyList(s) == [t |-> "list", v |-> s]
PyFuture == [t |-> "future"]

Keys == 1..MaxKey
Callers == 1..NumCallers

NoResult == [kind |-> "none"]
Error(e) == [kind |-> "error", err |-> e]

(***************************************************************************)
(* get_or_create, get and create                                           *)
(*                                                                         *)
(* The atomic() scope around the create is the database's own (an opaque   *)
(* collaborator); it adds no round trip and is not modelled.               *)
(***************************************************************************)
\* The rows a select with the call's exact-match criteria returns.
Matching(tbl, k) == {r \in tbl : r.key = k}

\* AsyncSelectQuery.get on the reply of its round trip: the first row of the
\* result, or DoesNotExist when cursor.next() raises StopIteration.
Get(tbl, k) ==
    IF Matching(tbl, k) = {}
    THEN [kind |-> "DoesNotExist"]
    ELSE [kind |-> "row", pk |-> (CHOOSE r \in Matching(tbl, k) : TRUE).pk]

\* What the create step of get_or_create yields to the coroutine runner:
\* `yield cls.create(**params), True` yields the tuple (Future, True).
YieldedAtCreate == "tuple"

\* How the coroutine runner resumes a generator on what it yielded: a Future
\* suspends it until the Future resolves; anything that is not a Future, a
\* list or a dict is answered at once by throwing BadYieldError into it.
Resumption(yielded) ==
    IF yielded = "future" THEN "await" ELSE "BadYieldError"

GocIdle ==
    /\ gpc = [p \in Callers |-> "idle"]
    /\ gcrit = [p \in Callers |-> 1]
    /\ gres = [p \in Callers |-> NoResult]
    /\ gselects = [p \in Callers |-> 0]
    /\ gcreates = [p \in Callers |-> 0]
    /\ bg = [p \in Callers |-> "none"]
    /\ bgPk = [p \in Callers |-> 0]

GocInit ==
    /\ \E ks \in SUBSET Keys :
         /\ table = {[pk |-> k, key |-> k] : k \in ks}
         /\ table0 = table
    /\ nextPk = MaxKey + 1
    /\ GocIdle

\* get_or_create is called: sq.get() runs up to its round trip.
GetOrCreate(p, k) ==
    /\ gpc[p] = "idle"
    /\ gpc' = [gpc EXCEPT ![p] = "select"]
    /\ gcrit' = [gcrit EXCEPT ![p] = k]
    /\ gselects' = [gselects EXCEPT ![p] = @ + 1]
    /\ UNCHANGED <<table, table0, nextPk, gres, gcreates, bg, bgPk>>
    /\ UNCHANGED <<saveVars, delVars, execVars, queryVars>>

\* The backend answers the select of sq.get() (the first one, or the one in
\* the IntegrityError handler) and get_or_create runs on to its next
\* suspension point or to its end.
SelectReply(p) ==
    /\ gpc[p] \in {"select", "reselect"}
    /\ LET got == Get(table, gcrit[p]) IN
       IF got.kind = "row"
       THEN \* raise gen.Return((cursor, False))
            /\ gres' = [gres EXCEPT ![p] = [kind |-> "ok", pk |-> got.pk, created |-> FALSE]]
            /\ gpc' = [gpc EXCEPT ![p] = "done"]
            /\ UNCHANGED <<bg, gcreates>>
       ELSE IF gpc[p] = "select"
       THEN \* except DoesNotExist: cls.create(**params) is called and runs up
            \* to the round trip of its insert; then the tuple is yielded.
            /\ bg' = [bg EXCEPT ![p] = "pending"]
            /\ gcreates' = [gcreates EXCEPT ![p] = @ + 1]
            /\ IF Resumption(YieldedAtCreate) = "await"
               THEN /\ gpc' = [gpc EXCEPT ![p] = "create"]
                    /\ gres' = gres
               ELSE /\ gpc' = [gpc EXCEPT ![p] = "done"]
                    /\ gres' = [gres EXCEPT ![p] = Error(Resumption(YieldedAtCreate))]
       ELSE \* except DoesNotExist in the handler: raise exc
            /\ gres' = [gres EXCEPT ![p] = Error("IntegrityError")]
            /\ gpc' = [gpc EXCEPT ![p] = "done"]
            /\ UNCHANGED <<bg, gcreates>>
    /\ UNCHANGED <<table, table0, nextPk, gcrit, gselects, bgPk>>
    /\ UNCHANGED <<saveVars, delVars, execVars, queryVars>>

\* The backend answers the insert of the create() that get_or_create started:
\* the row is added, or the unique key is taken and IntegrityError is raised.
\* create() resolves its own Future with the outcome; get_or_create is
\* resumed with it only if it is suspended on that Future.
InsertReply(p) ==
    /\ bg[p] = "pending"
    /\ IF Matching(table, gcrit[p]) = {}
       THEN /\ table' = table \cup {[pk |-> nextPk, key |-> gcrit[p]]}
            /\ nextPk' = nextPk + 1
            /\ bg' = [bg EXCEPT ![p] = "created"]
            /\ bgPk' = [bgPk EXCEPT ![p] = nextPk]
            /\ IF gpc[p] = "create"
               THEN \* raise gen.Return((cursor, True))
                    /\ gres' = [gres EXCEPT ![p] = [kind |-> "ok", pk |-> nextPk, created |-> TRUE]]
                    /\ gpc' = [gpc EXCEPT ![p] = "done"]
               ELSE UNCHANGED <<gres, gpc>>
            /\ UNCHANGED gselects
       ELSE /\ bg' = [bg EXCEPT ![p] = "IntegrityError"]
            /\ UNCHANGED <<table, nextPk, bgPk, gres>>
            /\ IF gpc[p] = "create"
               THEN \* except peewee.IntegrityError: sq.get() again
                    /\ gpc' = [gpc EXCEPT ![p] = "reselect"]
                    /\ gselects' = [gselects EXCEPT ![p] = @ + 1]
               ELSE UNCHANGED <<gpc, gselects>>
    /\ UNCHANGED <<table0, gcrit, gcreates>>
    /\ UNCHANGED <<saveVars, delVars, execVars, queryVars>>

GocNext ==
    \E p \in Callers :
        \/ \E k \in Keys : GetOrCreate(p, k)
        \/ SelectReply(p)
        \/ InsertReply(p)

(***************************************************************************)
(* save and AsyncInsertQuery.execute                                       *)
(***************************************************************************)
\* meta.get_primary_key_fields(): the key field, or the parts of a
\* CompositeKey in order.
PkFieldNames(composite) == IF composite THEN <<"a", "b">> ELSE <<"id">>
PkFieldSet(composite) == {PkFieldNames(composite)[i] : i \in 1..Len(PkFieldNames(composite))}
Fields(composite) == PkFieldSet(composite) \cup {"name"}

\* A dict without the given keys (dict.pop(name, None) for each of them).
Without(fd, names) == [f \in (DOMAIN fd) \ names |-> fd[f]]

\* getattr(instance, name): the field's value, None when it was never set.
Attr(d, f) == IF f \in DOMAIN d THEN d[f] ELSE PyNone

\* self._get_pk_value(): the key field's value; for a CompositeKey the tuple
\* of the parts' values, which is never None itself.
GetPkValue(d, composite) ==
    IF composite
    THEN PyList([i \in 1..Len(PkFieldNames(TRUE)) |-> Attr(d, PkFieldNames(TRUE)[i])])
    ELSE Attr(d, "id")

\* self._set_pk_value(value): assigns the key field; assigning to a
\* CompositeKey changes nothing.
SetPkValue(d, composite, value) ==
    IF composite
    THEN d
    ELSE [f \in (DOMAIN d) \cup {"id"} |-> IF f = "id" THEN value ELSE d[f]]

\* self._prune_fields(field_dict, only): the entries of the fields in only.
PruneFields(fd, only) == [f \in (DOMAIN fd) \cap only |-> fd[f]]

\* field_dict as save builds it before it chooses a path.
FieldDict(d, only) == IF only # {} THEN PruneFields(d, only) ELSE d

\* The branch save takes: update when the key is set and insert is not forced.
TakesUpdatePath(pk_value, force_insert) == pk_value # PyNone /\ ~force_insert

\* Fault: a composite key is popped by the name of the key attribute, as a
\* single key is, which removes none of its parts.
UpdateFieldDict_KeyNameOnly(fd, composite) ==
    Without(fd, {"id"})

\* The assignment list of the update: field_dict with the key field popped,
\* or every part of a composite key popped.
UpdateFieldDict(fd, composite) ==
    IF composite
    THEN Without(fd, PkFieldSet(TRUE))
    ELSE Without(fd, {"id"})

\* The primary key the backend gives the inserted row: the key the statement
\* supplies, or for a single key column left out the value the backend draws
\* from the column's sequence.
InsertedKey(fd, composite, drawn) ==
    IF composite THEN GetPkValue(fd, TRUE)
    ELSE IF "id" \in DOMAIN fd THEN fd["id"] ELSE PyInt(drawn)

\* The backend can give the new row a key: the statement supplies it, or
\* the single key column draws it from its sequence.
KeyAvailable(fd, composite, sequence) ==
    composite \/ "id" \in DOMAIN fd \/ sequence

\* A value the driver can bind to a statement parameter.
Bindable(v) ==
    \/ v.t \in {"none", "int"}
    \/ v.t = "list" /\ \A i \in DOMAIN v.v : v.v[i].t \in {"none", "int"}

\* Every parameter of the statement can be bound.
AllBindable(st) ==
    /\ \A f \in DOMAIN st.assign : Bindable(st.assign[f])
    /\ st.kind = "update" => Bindable(st.where)

\* A well-formed key of a row: no part is NULL.
ValidKey(v) ==
    \/ v.t = "int"
    \/ v.t = "list" /\ \A i \in DOMAIN v.v : v.v[i].t = "int"

\* field.python_value(column) of an integer key column: int(column), None kept.
PythonValue(col) == IF col.t = "int" THEN PyInt(col.v) ELSE PyNone

\* The row an INSERT ... RETURNING <key fields> hands back for the new row.
PkRow(key) == IF key.t = "list" THEN key.v ELSE <<key>>

\* Fault: the first element of the converted row is delivered for every key,
\* composite or not.
InsertResult_FirstOnly(returning, composite, pk_row) ==
    IF returning THEN PythonValue(pk_row[1]) ELSE PyFuture

\* What AsyncInsertQuery.execute delivers for a single-row insert once the
\* cursor is there: with a returning clause the converted key (a list for a
\* composite key, else its first element); without one, the value of the
\* call self.database.last_insert_id(cursor, model), a Future.
InsertResult(returning, composite, pk_row) ==
    IF returning
    THEN LET clean_data == [i \in 1..Len(pk_row) |-> PythonValue(pk_row[i])]
         IN IF composite THEN PyList(clean_data) ELSE clean_data[1]
    ELSE PyFuture

\* The key save adopts after the insert.
AdoptedPk(from_cursor, pk_value) ==
    IF from_cursor # PyNone THEN from_cursor ELSE pk_value

\* Fault: the dirty set is cleared only when a row was written.
DirtyAfterSave_KeepWhenNoRows(d, rows) ==
    IF rows = 0 THEN d ELSE {}

\* self._dirty.clear(): the dirty set save leaves on either path.
DirtyAfterSave(d, rows) == {}

\* rows: what save reports on the insert path.
InsertRows == 1

NoStmt == [kind |-> "none"]

SaveIdle ==
    /\ spc = "idle"
    /\ sforce = FALSE
    /\ sonly = {}
    /\ stmt = NoStmt
    /\ sprevPk = PyNone
    /\ sdirty0 = {}
    /\ pk_from_cursor = PyNone
    /\ sres = NoResult

SaveInit ==
    /\ composite_key \in BOOLEAN
    /\ insert_returning \in BOOLEAN
    /\ pk_sequence \in (IF composite_key THEN {FALSE} ELSE BOOLEAN)
    /\ data = <<>>
    /\ dirty = {}
    /\ sinserted = PyNone
    /\ SaveIdle

\* instance.field = value, between two operations on the instance (callers
\* serialize their operations on one instance).
SetField(f, v) ==
    /\ spc \in {"idle", "done", "failed"}
    /\ f \in Fields(composite_key)
    /\ data' = [g \in (DOMAIN data) \cup {f} |-> IF g = f THEN PyInt(v) ELSE data[g]]
    /\ dirty' = dirty \cup {f}
    /\ spc' = "idle"
    /\ sforce' = FALSE
    /\ sonly' = {}
    /\ stmt' = NoStmt
    /\ sprevPk' = PyNone
    /\ sdirty0' = {}
    /\ pk_from_cursor' = PyNone
    /\ sres' = NoResult
    /\ sinserted' = PyNone
    /\ UNCHANGED <<composite_key, insert_returning, pk_sequence>>
    /\ UNCHANGED <<gocVars, delVars, execVars, queryVars>>

\* save(force_insert, only) is called and runs up to the round trip of the
\* update or of the insert it builds.
Save(force_insert, only) ==
    /\ spc \in {"idle", "done", "failed"}
    /\ only \subseteq Fields(composite_key)
    /\ LET field_dict == FieldDict(data, only)
           pk_value == GetPkValue(data, composite_key)
       IN /\ sprevPk' = pk_value
          /\ sdirty0' = dirty
          /\ IF TakesUpdatePath(pk_value, force_insert)
             THEN /\ stmt' = [kind |-> "update",
                              assign |-> UpdateFieldDict(field_dict, composite_key),
                              where |-> pk_value]
                  /\ spc' = "update"
             ELSE /\ stmt' = [kind |-> "insert", assign |-> field_dict]
                  /\ spc' = "insert"
    /\ sforce' = force_insert
    /\ sonly' = only
    /\ pk_from_cursor' = PyNone
    /\ sres' = NoResult
    /\ sinserted' = PyNone
    /\ UNCHANGED <<composite_key, insert_returning, pk_sequence, data, dirty>>
    /\ UNCHANGED <<gocVars, delVars, execVars, queryVars>>

\* The backend raises an error for the statement of save (the table is
\* shared with other clients, so a key may be taken at any time): the error
\* passes through save, which changes nothing more.
SaveStatementFails(e) ==
    /\ spc \in {"update", "insert"}
    /\ \/ e = "OperationalError"
       \/ /\ e = "ProgrammingError"
          /\ ~AllBindable(stmt)
       \/ /\ e = "IntegrityError"
          /\ stmt.kind = "insert"
          /\ AllBindable(stmt)
    /\ spc' = "failed"
    /\ sres' = Error(e)
    /\ UNCHANGED <<composite_key, insert_returning, pk_sequence, data, dirty, sinserted,
                   sforce, sonly, stmt, sprevPk, sdirty0, pk_from_cursor>>
    /\ UNCHANGED <<gocVars, delVars, execVars, queryVars>>

\* The backend has run the update on the n rows whose key matches (none when
\* another client has removed the row): save reports the rows affected and
\* clears the dirty set.
UpdateReply(n) ==
    /\ spc = "update"
    /\ AllBindable(stmt)
    /\ n = 1 => ValidKey(stmt.where)
    /\ sres' = [kind |-> "ok", rows |-> n]
    /\ dirty' = DirtyAfterSave(dirty, n)
    /\ spc' = "done"
    /\ UNCHANGED <<composite_key, insert_returning, pk_sequence, data, sinserted,
                   sforce, sonly, stmt, sprevPk, sdirty0, pk_from_cursor>>
    /\ UNCHANGED <<gocVars, delVars, execVars, queryVars>>

\* The backend has run the insert, drawing the key from the sequence when the
\* statement supplies none: AsyncInsertQuery.execute resolves the key, save
\* adopts it, reports one row and clears the dirty set.
InsertReplySave(drawn) ==
    /\ spc = "insert"
    /\ AllBindable(stmt)
    /\ KeyAvailable(stmt.assign, composite_key, pk_sequence)
    /\ LET key == InsertedKey(stmt.assign, composite_key, drawn)
           from_cursor == InsertResult(insert_returning, composite_key, PkRow(key))
       IN /\ ValidKey(key)
          /\ sinserted' = key
          /\ pk_from_cursor' = from_cursor
          /\ data' = SetPkValue(data, composite_key, AdoptedPk(from_cursor, sprevPk))
    /\ dirty' = DirtyAfterSave(dirty, InsertRows)
    /\ sres' = [kind |-> "ok", rows |-> InsertRows]
    /\ spc' = "done"
    /\ UNCHANGED <<composite_key, insert_returning, pk_sequence, sforce, sonly, stmt, sprevPk, sdirty0>>
    /\ UNCHANGED <<gocVars, delVars, execVars, queryVars>>

SaveNext ==
    \/ \E f \in {"id", "a", "b", "name"}, v \in Keys : SetField(f, v)
    \/ \E fi \in BOOLEAN, only \in SUBSET {"id", "a", "b", "name"} : Save(fi, only)
    \/ \E e \in {"OperationalError", "ProgrammingError", "IntegrityError"} : SaveStatementFails(e)
    \/ \E n \in 0..1 : UpdateReply(n)
    \/ \E k \in Keys : InsertReplySave(k)

(***************************************************************************)
(* delete_instance                                                         *)
(***************************************************************************)
\* The primary key of the instance delete_instance is called on.
InstancePk == PyInt(CHOOSE k \in Keys : \A j \in Keys : k <= j)
OtherPk == PyInt(CHOOSE k \in Keys : \A j \in Keys : k >= j)

Reverse(s) == [i \in 1..Len(s) |-> s[Len(s) + 1 - i]]

\* Fault: delete_nullable is not consulted.
DepStatement_IgnoreFlag(fk, delete_nullable) ==
    IF fk.null THEN "detach" ELSE "delete"

\* The statement delete_instance builds for one dependency (query, fk):
\* an update that nulls the reference when the foreign key is nullable and
\* delete_nullable is false, else a delete of the referencing rows.
DepStatement(fk, delete_nullable) ==
    IF fk.null /\ ~delete_nullable THEN "detach" ELSE "delete"

\* The effect of that statement on the dependent relation's rows; query
\* selects the rows whose foreign key equals the instance's key.
ApplyDep(rows, kind, pk) ==
    IF kind = "detach"
    THEN {IF r.ref = pk THEN [r EXCEPT !.ref = PyNone] ELSE r : r \in rows}
    ELSE {r \in rows : r.ref # pk}

\* Fault: the iteration stops one dependency short.
DepQueue_DropLast(recursive, dependencies) ==
    IF recursive /\ dependencies # <<>>
    THEN SubSeq(Reverse(dependencies), 1, Len(dependencies) - 1)
    ELSE <<>>

\* The dependencies delete_instance iterates: reversed(list(dependencies))
\* when recursive, none otherwise.
DepQueue(recursive, dependencies) ==
    IF recursive THEN Reverse(dependencies) ELSE <<>>

DelIdle ==
    /\ dpc = "idle"
    /\ drecursive = FALSE
    /\ dnullable = FALSE
    /\ dqueue = <<>>
    /\ dcur = [rel |-> 0, null |-> FALSE]
    /\ dlog = <<>>
    /\ dres = NoResult

\* The values a foreign key of a relation can hold.
RefVals(nullable) ==
    {InstancePk, OtherPk} \cup (IF nullable THEN {PyNone} ELSE {})

\* Rows 1..MaxDepRows of a relation, each with any reference (row ids are
\* labels: references are listed in one order only).
Rank(v) == IF v = PyNone THEN 0 ELSE v.v
InitialRows(nullable) ==
    {{[id |-> i, ref |-> f[i]] : i \in 1..MaxDepRows} :
        f \in {g \in [1..MaxDepRows -> RefVals(nullable)] :
                  \A i \in 1..MaxDepRows, j \in 1..MaxDepRows :
                      i <= j => Rank(g[i]) <= Rank(g[j])}}

DelInit ==
    /\ \E n \in 0..MaxDeps :
         /\ \E nl \in [1..n -> BOOLEAN] :
              /\ deps = [i \in 1..n |-> [rel |-> i, null |-> nl[i]]]
              /\ depRows \in {f \in [1..n -> UNION {InitialRows(b) : b \in BOOLEAN}] :
                                \A i \in 1..n : f[i] \in InitialRows(nl[i])}
    /\ depRows0 = depRows
    /\ rootRows = {InstancePk, OtherPk}
    /\ DelIdle

\* The part of delete_instance that follows a completed round trip (or the
\* entry): the next dependency's statement is issued, or the delete of the
\* root row when none is left.
IssueNext(queue, log) ==
    IF queue # <<>>
    THEN /\ dcur' = Head(queue)
         /\ dqueue' = Tail(queue)
         /\ dlog' = Append(log, [ev |-> "issued", rel |-> Head(queue).rel])
         /\ dpc' = "dep"
    ELSE /\ dcur' = dcur
         /\ dqueue' = queue
         /\ dlog' = Append(log, [ev |-> "issued", rel |-> 0])
         /\ dpc' = "root"

\* delete_instance(recursive, delete_nullable) is called.
DeleteInstance(recursive, delete_nullable) ==
    /\ dpc = "idle"
    /\ drecursive' = recursive
    /\ dnullable' = delete_nullable
    /\ IssueNext(DepQueue(recursive, deps), dlog)
    /\ UNCHANGED <<deps, depRows, depRows0, rootRows, dres>>
    /\ UNCHANGED <<gocVars, saveVars, execVars, queryVars>>

\* The backend has run the statement of the dependency in flight.
DepReply ==
    /\ dpc = "dep"
    /\ depRows' = [depRows EXCEPT ![dcur.rel] =
                      ApplyDep(@, DepStatement(dcur, dnullable), InstancePk)]
    /\ IssueNext(dqueue, Append(dlog, [ev |-> "completed", rel |-> dcur.rel]))
    /\ UNCHANGED <<deps, depRows0, rootRows, drecursive, dnullable, dres>>
    /\ UNCHANGED <<gocVars, saveVars, execVars, queryVars>>

\* Fault: the error of a statement is swallowed and delete_instance goes on
\* as if the statement were still to be answered.
OnFailure_Ignored(pc) == pc

\* Where delete_instance is after the yield on a statement raises: nothing
\* catches the error, so it leaves the coroutine.
OnFailure(pc) == "failed"

\* The backend raises an error for the statement in flight: it passes
\* through delete_instance.
DeleteStatementFails ==
    /\ dpc \in {"dep", "root"}
    /\ dpc' = OnFailure(dpc)
    /\ dres' = Error("OperationalError")
    /\ dlog' = Append(dlog, [ev |-> "failed", rel |-> IF dpc = "root" THEN 0 ELSE dcur.rel])
    /\ UNCHANGED <<deps, depRows, depRows0, rootRows, drecursive, dnullable,
                   dqueue, dcur>>
    /\ UNCHANGED <<gocVars, saveVars, execVars, queryVars>>

\* The backend has run the delete of the root row.
RootReply ==
    /\ dpc = "root"
    /\ rootRows' = rootRows \ {InstancePk}
    /\ dlog' = Append(dlog, [ev |-> "completed", rel |-> 0])
    /\ dres' = [kind |-> "ok", rows |-> Cardinality(rootRows \cap {InstancePk})]
    /\ dpc' = "done"
    /\ UNCHANGED <<deps, depRows, depRows0, drecursive, dnullable, dqueue, dcur>>
    /\ UNCHANGED <<gocVars, saveVars, execVars, queryVars>>

DelNext ==
    \/ \E r \in BOOLEAN, d \in BOOLEAN : DeleteInstance(r, d)
    \/ DepReply
    \/ DeleteStatementFails
    \/ RootReply

(***************************************************************************)
(* execute_sql                                                             *)
(***************************************************************************)
\* Fault: the autocommit mode is not consulted.
ExecMode_IgnoreAutocommit(require_commit, autocommit_on) ==
    IF require_commit THEN "transaction" ELSE "execute"

\* How execute_sql hands the statement to the pool: conn.transaction when
\* require_commit and autocommit, conn.execute otherwise.
ExecMode(require_commit, autocommit_on) ==
    IF require_commit /\ autocommit_on THEN "transaction" ELSE "execute"

\* What the pool runs on the backend for the request, in order: a
\* transaction wraps the statement in BEGIN and COMMIT.
PoolOps(mode) ==
    IF mode = "transaction" THEN <<"BEGIN", "STMT", "COMMIT">> ELSE <<"STMT">>

\* execute_sql after the pool's Future raised exc: the hook is consulted;
\* when it answers true the error is re-raised, otherwise control reaches
\* `raise gen.Return(cursor)` with cursor never bound.
AfterError(exc, hook_answer) ==
    IF hook_answer THEN Error(exc) ELSE Error("UnboundLocalError")

\* sql_error_handler(exc, sql, params, require_commit): the installed policy.
SqlErrorHandler(exc) == propagate

ExecIdle ==
    /\ epc = "idle"
    /\ erc = FALSE
    /\ eac = FALSE
    /\ emode = "none"
    /\ eops = <<>>
    /\ hookSeen = <<>>
    /\ eraised = "none"
    /\ eres = NoResult
    /\ ecalls = 0

ExecInit ==
    /\ autocommit \in BOOLEAN
    /\ propagate \in BOOLEAN
    /\ ExecIdle

\* The ambient autocommit mode is switched between two calls.
SetAutocommit(b) ==
    /\ epc \in {"idle", "delivered"}
    /\ autocommit # b
    /\ autocommit' = b
    /\ UNCHANGED <<propagate, epc, erc, eac, emode, eops, hookSeen, eraised, eres, ecalls>>
    /\ UNCHANGED <<gocVars, saveVars, delVars, queryVars>>

\* execute_sql(sql, params, require_commit) is called and runs up to the
\* round trip.
ExecuteSql(require_commit) ==
    /\ epc \in {"idle", "delivered"}
    /\ ecalls < MaxCalls
    /\ ecalls' = ecalls + 1
    /\ erc' = require_commit
    /\ eac' = autocommit
    /\ emode' = ExecMode(require_commit, autocommit)
    /\ eops' = <<>>
    /\ hookSeen' = <<>>
    /\ eraised' = "none"
    /\ eres' = NoResult
    /\ epc' = "pending"
    /\ UNCHANGED <<autocommit, propagate>>
    /\ UNCHANGED <<gocVars, saveVars, delVars, queryVars>>

\* The backend performs the next operation of the request.
BackendStep ==
    /\ epc = "pending"
    /\ Len(eops) < Len(PoolOps(emode))
    /\ eops' = Append(eops, PoolOps(emode)[Len(eops) + 1])
    /\ UNCHANGED <<autocommit, propagate, epc, erc, eac, emode, hookSeen, eraised, eres, ecalls>>
    /\ UNCHANGED <<gocVars, saveVars, delVars, queryVars>>

\* The request is complete: the pool's Future resolves and execute_sql
\* delivers the cursor.
Deliver ==
    /\ epc = "pending"
    /\ eops = PoolOps(emode)
    /\ eres' = [kind |-> "cursor"]
    /\ epc' = "delivered"
    /\ UNCHANGED <<autocommit, propagate, erc, eac, emode, eops, hookSeen, eraised, ecalls>>
    /\ UNCHANGED <<gocVars, saveVars, delVars, queryVars>>

\* The backend raises an error on the next operation of the request (a
\* transaction that has begun is rolled back): the pool's Future raises it
\* into execute_sql, which consults the hook.
BackendError(e) ==
    /\ epc = "pending"
    /\ Len(eops) < Len(PoolOps(emode))
    /\ eops' = IF emode = "transaction" /\ eops # <<>>
               THEN Append(eops, "ROLLBACK") ELSE eops
    /\ eraised' = e
    /\ hookSeen' = Append(hookSeen, e)
    /\ eres' = AfterError(e, SqlErrorHandler(e))
    /\ epc' = "delivered"
    /\ UNCHANGED <<autocommit, propagate, erc, eac, emode, ecalls>>
    /\ UNCHANGED <<gocVars, saveVars, delVars, queryVars>>

ExecNext ==
    \/ \E b \in BOOLEAN : SetAutocommit(b)
    \/ \E rc \in BOOLEAN : ExecuteSql(rc)
    \/ BackendStep
    \/ Deliver
    \/ \E e \in {"IntegrityError", "OperationalError"} : BackendError(e)

(***************************************************************************)
(* Select and raw queries: execute, first, get, exists, scalar             *)
(*                                                                         *)
(* One query object and the rows its statement selects.  A select query    *)
(* keeps a result wrapper in _qr and a _dirty flag; a raw query keeps only *)
(* _qr.  get and exists work on a clone limited to one row, scalar goes to *)
(* the backend directly, execute and first go through the cached wrapper.  *)
(***************************************************************************)
RowValues == {<<1, 2>>, <<2, 1>>}
RowSeqs == UNION {[1..n -> RowValues] : n \in 0..MaxRows}

\* ResultWrapper(model_class, cursor, meta): a new wrapper object over the
\* rows of one statement; stmt_no tells wrapper objects apart, ver is the
\* state of the query whose statement produced the rows.
Wrapper(stmt_no, ver, rows) == [t |-> "wrapper", id |-> stmt_no, ver |-> ver, rows |-> rows]

\* Truth value of a Python object, as `not x` and `if x` take it.  A result
\* wrapper is true like any object unless the installed peewee gives it
\* __len__, which counts its rows.
Truthy(x, has_len) ==
    CASE x.t = "none" -> FALSE
      [] x.t = "int" -> x.v # 0
      [] x.t = "list" -> Len(x.v) > 0
      [] x.t = "wrapper" -> IF has_len THEN Len(x.rows) > 0 ELSE TRUE
      [] OTHER -> TRUE

\* AsyncSelectQuery.execute: `if self._dirty or not self._qr`.
SelectNeedsStatement(dirty_flag, qr, has_len) == dirty_flag \/ ~Truthy(qr, has_len)

\* AsyncRawQuery.execute: `if self._qr is None`.
RawNeedsStatement(qr) == qr = PyNone

NeedsStatement(kind, dirty_flag, qr, has_len) ==
    IF kind = "select" THEN SelectNeedsStatement(dirty_flag, qr, has_len)
    ELSE RawNeedsStatement(qr)

Value(v) == [kind |-> "value", v |-> v]
RowResult(r) == [kind |-> "row", row |-> r]

\* cursor.fetchone(): the first row as a tuple, or None.
FetchOne(rows) == IF rows = <<>> THEN PyNone ELSE PyList(rows[1])

\* row[0] of scalar: the first column of a tuple; a Future has no items.
FirstItem(row) ==
    IF row.t = "list" THEN Value(PyInt(row.v[1])) ELSE Error("TypeError")

\* The end of scalar: `raise gen.Return(row[0])` delivers the first column;
\* the other branch builds gen.Return(row) without raising it, so the
\* coroutine runs off its end and delivers None.
ScalarReturn(row, as_tuple) ==
    IF Truthy(row, FALSE) /\ ~as_tuple THEN FirstItem(row) ELSE Value(PyNone)

\* scalar(convert=True): row = self.tuples().first().  On a select query
\* first is a coroutine, so row is the Future of a first() that has just
\* been started; a raw query has no first.
ScalarConvert(kind, as_tuple) ==
    IF kind = "select" THEN ScalarReturn(PyFuture, as_tuple)
    ELSE Error("AttributeError")

\* paginate(1, 1): the statement of the clone selects at most one row.
Limit(rows, n) == SubSeq(rows, 1, IF Len(rows) < n THEN Len(rows) ELSE n)

\* first: res.fill_cache(1), then res._result_cache[0], or None on IndexError.
FirstOf_LastRow(rows) == IF rows = <<>> THEN Value(PyNone) ELSE RowResult(rows[Len(rows)])
FirstOf(rows) == IF rows = <<>> THEN Value(PyNone) ELSE RowResult(rows[1])

\* get: cursor.next() on the clone's wrapper, DoesNotExist on StopIteration.
GetOf(rows) ==
    LET r == Limit(rows, 1)
    IN IF r = <<>> THEN Error("DoesNotExist") ELSE RowResult(r[1])

\* exists: the clone selects the constant 1, limited to one row; the answer
\* is bool() of what scalar delivers.
ExistsOf(rows) ==
    LET probe == [i \in 1..Len(Limit(rows, 1)) |-> <<1>>]
        cursor == ScalarReturn(FetchOne(probe), FALSE)
    IN [kind |-> "bool", b |-> Truthy(cursor.v, FALSE)]

NoOp == [name |-> "none", as_tuple |-> FALSE, convert |-> FALSE,
         issued |-> FALSE, needed |-> FALSE, ver |-> 0, stmt |-> 0, prior |-> PyNone]

QueryIdle ==
    /\ q_dirty = FALSE
    /\ q_qr = PyNone
    /\ qver = 0
    /\ qmarked = TRUE
    /\ qraced = FALSE
    /\ qpc = "idle"
    /\ qop = NoOp
    /\ qres = NoResult
    /\ qcalls = 0
    /\ qstmts = 0
    /\ qorphan = 0

\* A new query: a select query starts dirty with no wrapper (SelectQuery's
\* constructor), a raw query starts with no wrapper.
QueryInit ==
    /\ qkind \in {"select", "raw"}
    /\ wrapper_len \in BOOLEAN
    /\ dbrows \in RowSeqs
    /\ q_dirty = (qkind = "select")
    /\ q_qr = PyNone
    /\ qver = 0
    /\ qmarked = TRUE
    /\ qraced = FALSE
    /\ qpc = "idle"
    /\ qop = NoOp
    /\ qres = NoResult
    /\ qcalls = 0
    /\ qstmts = 0
    /\ qorphan = 0

OpNames == {"execute", "first", "get", "exists", "scalar"}

\* Errors the backend raises for a statement.
BackendErrors == {"OperationalError", "ProgrammingError"}

\* An operation is called on the query and runs up to its first suspension.
\* execute and first go to the backend only when the test on _dirty and _qr
\* says so and otherwise deliver from the wrapper at once; get, exists and
\* scalar(convert=False) always send a statement and wait for it;
\* scalar(convert=True) on a select query starts first() on a clone, which
\* sends its statement, and goes on without waiting for it.
Call(name, as_tuple, convert) ==
    /\ qpc \in {"idle", "done"}
    /\ qcalls < MaxQueryCalls
    /\ qkind = "raw" => name \in {"execute", "scalar"}
    /\ name # "scalar" => (~as_tuple /\ ~convert)
    /\ LET cached == name \in {"execute", "first"}
           needs == NeedsStatement(qkind, q_dirty, q_qr, wrapper_len)
           background == name = "scalar" /\ convert /\ qkind = "select"
           waits == IF cached THEN needs ELSE ~convert
           issues == waits \/ background
       IN /\ qop' = [name |-> name, as_tuple |-> as_tuple, convert |-> convert,
                     issued |-> issues, needed |-> qmarked, ver |-> qver,
                     stmt |-> IF issues THEN qstmts + 1 ELSE 0, prior |-> q_qr]
          /\ qstmts' = IF issues THEN qstmts + 1 ELSE qstmts
          /\ qmarked' = IF cached /\ issues THEN FALSE ELSE qmarked
          /\ qorphan' = IF background THEN qorphan + 1 ELSE qorphan
          /\ qpc' = IF waits THEN "pending" ELSE "done"
          /\ qres' = IF waits THEN NoResult
                     ELSE IF name = "execute" THEN Value(q_qr)
                     ELSE IF name = "first" THEN FirstOf(q_qr.rows)
                     ELSE ScalarConvert(qkind, as_tuple)
    /\ qcalls' = qcalls + 1
    /\ UNCHANGED <<qkind, wrapper_len, dbrows, q_dirty, q_qr, qver, qraced>>
    /\ UNCHANGED <<gocVars, saveVars, delVars, execVars>>

\* The backend answers the statement the operation waits for, and the
\* operation runs to its end: execute and first store a new wrapper in _qr
\* (a select query also clears _dirty), the others leave the query alone.
Reply ==
    /\ qpc = "pending"
    /\ LET name == qop.name
           cached == name \in {"execute", "first"}
           w == Wrapper(qop.stmt, qop.ver, dbrows)
       IN /\ q_qr' = IF cached THEN w ELSE q_qr
          /\ q_dirty' = IF cached /\ qkind = "select" THEN FALSE ELSE q_dirty
          /\ qres' = CASE name = "execute" -> Value(w)
                       [] name = "first" -> FirstOf(dbrows)
                       [] name = "get" -> GetOf(dbrows)
                       [] name = "exists" -> ExistsOf(dbrows)
                       [] OTHER -> ScalarReturn(FetchOne(dbrows), qop.as_tuple)
    /\ qpc' = "done"
    /\ UNCHANGED <<qkind, wrapper_len, dbrows, qver, qmarked, qraced, qop, qcalls,
                   qstmts, qorphan>>
    /\ UNCHANGED <<gocVars, saveVars, delVars, execVars>>

\* The statement the operation waits for fails: the error is raised at the
\* yield and leaves the operation; _qr and _dirty stay as they were.
QueryFails(e) ==
    /\ qpc = "pending"
    /\ qres' = Error(e)
    /\ qmarked' = (qmarked \/ (qop.name \in {"execute", "first"} /\ qop.needed))
    /\ qpc' = "done"
    /\ UNCHANGED <<qkind, wrapper_len, dbrows, q_dirty, q_qr, qver, qraced, qop,
                   qcalls, qstmts, qorphan>>
    /\ UNCHANGED <<gocVars, saveVars, delVars, execVars>>

\* The backend answers the statement of a first() nobody waits for.
OrphanReply ==
    /\ qorphan > 0
    /\ qorphan' = qorphan - 1
    /\ UNCHANGED <<qkind, wrapper_len, dbrows, q_dirty, q_qr, qver, qmarked, qraced,
                   qpc, qop, qres, qcalls, qstmts>>
    /\ UNCHANGED <<gocVars, saveVars, delVars, execVars>>

\* The select query is changed and marked dirty; nothing keeps this from
\* happening while execute is suspended at its yield.
MarkDirty ==
    /\ qkind = "select"
    /\ qver < MaxMarks
    /\ qver' = qver + 1
    /\ q_dirty' = TRUE
    /\ qmarked' = TRUE
    /\ qraced' = (qraced \/ (qpc = "pending" /\ qop.name \in {"execute", "first"}))
    /\ qpc' = IF qpc = "done" THEN "idle" ELSE qpc
    /\ UNCHANGED <<qkind, wrapper_len, dbrows, q_qr, qop, qres, qcalls, qstmts, qorphan>>
    /\ UNCHANGED <<gocVars, saveVars, delVars, execVars>>

QueryNext ==
    \/ \E name \in OpNames, as_tuple \in BOOLEAN, convert \in BOOLEAN :
           Call(name, as_tuple, convert)
    \/ Reply
    \/ \E e \in BackendErrors : QueryFails(e)
    \/ OrphanReply
    \/ MarkDirty

(***************************************************************************)
(* Specifications                                                          *)
(***************************************************************************)
GocOff == table = {} /\ table0 = {} /\ nextPk = MaxKey + 1 /\ GocIdle
SaveOff ==
    /\ composite_key = FALSE /\ insert_returning = TRUE /\ pk_sequence = TRUE
    /\ data = <<>>
    /\ dirty = {} /\ sinserted = PyNone /\ SaveIdle
DelOff ==
    /\ deps = <<>> /\ depRows = <<>> /\ depRows0 = <<>>
    /\ rootRows = {InstancePk, OtherPk} /\ DelIdle
ExecOff == autocommit = TRUE /\ propagate = TRUE /\ ExecIdle
QueryOff == qkind = "select" /\ wrapper_len = FALSE /\ dbrows = <<>> /\ QueryIdle

InitGoc == GocInit /\ SaveOff /\ DelOff /\ ExecOff /\ QueryOff
SpecGoc == InitGoc /\ [][GocNext]_vars

InitSave == SaveInit /\ GocOff /\ DelOff /\ ExecOff /\ QueryOff
SpecSave == InitSave /\ [][SaveNext]_vars

InitDelete == DelInit /\ GocOff /\ SaveOff /\ ExecOff /\ QueryOff
SpecDelete == InitDelete /\ [][DelNext]_vars

InitExec == ExecInit /\ GocOff /\ SaveOff /\ DelOff /\ QueryOff
SpecExec == InitExec /\ [][ExecNext]_vars

InitQuery == QueryInit /\ GocOff /\ SaveOff /\ DelOff /\ ExecOff
SpecQuery == InitQuery /\ [][QueryNext]_vars

(***************************************************************************)
(* Properties of get_or_create (of SpecGoc)                                *)
(***************************************************************************)
IsRow(res) == res.kind = "ok"

\* C1: two get_or_create calls with the same criteria on a table that held
\* no matching row at the start both complete with a row, exactly one of
\* them reports created = true, and both rows have the same primary key.
C1_ExactlyOneCreates ==
    \A p \in Callers, q \in Callers :
        ( /\ p # q
          /\ gpc[p] = "done" /\ gpc[q] = "done"
          /\ gcrit[p] = gcrit[q]
          /\ Matching(table0, gcrit[p]) = {} )
        => /\ IsRow(gres[p]) /\ IsRow(gres[q])
           /\ gres[p].created # gres[q].created
           /\ gres[p].pk = gres[q].pk

\* Both callers have returned from calls with the same criteria that found
\* no row, and both creates have been answered by the backend.
C1_BothReturned ==
    \E p \in Callers, q \in Callers :
        /\ p # q
        /\ gpc[p] = "done" /\ gpc[q] = "done"
        /\ gcrit[p] = gcrit[q]
        /\ Matching(table0, gcrit[p]) = {}
        /\ bg[p] = "created" /\ bg[q] = "IntegrityError"

\* C2: when the create of a call fails with a uniqueness violation, the call
\* has issued exactly two selects and one create, and it returns the row the
\* second select found with created = false, or fails with the violation.
C2_RetrySelectOnce ==
    \A p \in Callers :
        (gpc[p] = "done" /\ bg[p] = "IntegrityError")
        => /\ gselects[p] = 2
           /\ gcreates[p] = 1
           /\ \/ IsRow(gres[p]) /\ ~gres[p].created
              \/ gres[p] = Error("IntegrityError")

\* A call has returned and the create it started has failed with a
\* uniqueness violation.
C2_CreateViolated ==
    \E p \in Callers : gpc[p] = "done" /\ bg[p] = "IntegrityError"

\* C3: a call that runs with no other call: when a matching row exists it
\* returns that row with created = false and issues no insert; when none
\* exists and the create succeeds it returns the new row with created = true
\* and exactly one row has been added.
C3_SoloGetOrCreate ==
    \A p \in Callers :
        ( /\ gpc[p] = "done"
          /\ \A q \in Callers \ {p} : gpc[q] = "idle" )
        => IF Matching(table0, gcrit[p]) # {}
           THEN /\ gres[p] = [kind |-> "ok", pk |-> Get(table0, gcrit[p]).pk, created |-> FALSE]
                /\ gcreates[p] = 0
                /\ table = table0
           ELSE bg[p] = "created"
                => /\ gres[p] = [kind |-> "ok", pk |-> bgPk[p], created |-> TRUE]
                   /\ table = table0 \cup {[pk |-> bgPk[p], key |-> gcrit[p]]}

\* A call that ran alone found no row and its create has succeeded.
C3_SoloCreated ==
    \E p \in Callers :
        /\ gpc[p] = "done"
        /\ \A q \in Callers \ {p} : gpc[q] = "idle"
        /\ Matching(table0, gcrit[p]) = {}
        /\ bg[p] = "created"

(***************************************************************************)
(* Properties of delete_instance (of SpecDelete)                           *)
(***************************************************************************)
RootIssued == [ev |-> "issued", rel |-> 0]
DepCompleted(r) == [ev |-> "completed", rel |-> r]

\* C4: with recursive = true the delete of the root row is issued only after
\* the statement of every dependency has been issued and has completed, and
\* the root row is never gone while a dependency is unprocessed.
C4_RootAfterDependents ==
    drecursive =>
        /\ \A i \in DOMAIN dlog :
              dlog[i] = RootIssued =>
                 \A k \in DOMAIN deps :
                    \E j \in 1..(i - 1) : dlog[j] = DepCompleted(deps[k].rel)
        /\ InstancePk \notin rootRows =>
              \A k \in DOMAIN deps :
                 \E j \in DOMAIN dlog : dlog[j] = DepCompleted(deps[k].rel)

\* A recursive delete over at least two dependencies has completed.
C4_RecursiveDone ==
    dpc = "done" /\ drecursive /\ Len(deps) >= 2 /\ InstancePk \notin rootRows

\* C5: after a recursive delete_instance has completed, no row of a relation
\* with a non-nullable foreign key references the deleted row; every row that
\* referenced it through a nullable foreign key is still there with the
\* reference null when delete_nullable is false and is gone when it is true;
\* and the root row is gone.
C5_DependentsHandled ==
    (dpc = "done" /\ drecursive) =>
        /\ InstancePk \notin rootRows
        /\ \A k \in DOMAIN deps :
              LET r == deps[k].rel
                  referencing == {row \in depRows0[r] : row.ref = InstancePk}
              IN IF ~deps[k].null
                 THEN \A row \in depRows[r] : row.ref # InstancePk
                 ELSE IF ~dnullable
                 THEN \A row \in referencing :
                         [id |-> row.id, ref |-> PyNone] \in depRows[r]
                 ELSE \A row \in referencing :
                         \A cur \in depRows[r] : cur.id # row.id

\* A recursive delete has completed where a nullable and a non-nullable
\* relation both held rows referencing the root row.
C5_BothKindsReferenced ==
    /\ dpc = "done" /\ drecursive
    /\ \E k \in DOMAIN deps :
          deps[k].null /\ \E row \in depRows0[deps[k].rel] : row.ref = InstancePk
    /\ \E k \in DOMAIN deps :
          ~deps[k].null /\ \E row \in depRows0[deps[k].rel] : row.ref = InstancePk

(***************************************************************************)
(* Properties of save (of SpecSave)                                        *)
(***************************************************************************)
\* C6: the update save issues when the key is set and insert is not forced
\* assigns no primary-key field (no part of a composite key), whatever the
\* only subset, and is scoped by equality with the instance's primary key.
C6_UpdateAssignsNoKeyField ==
    (spc \in {"update", "done", "failed"} /\ sprevPk # PyNone /\ ~sforce) =>
        /\ stmt.kind = "update"
        /\ (DOMAIN stmt.assign) \cap PkFieldSet(composite_key) = {}
        /\ stmt.where = GetPkValue(data, composite_key)

\* An update has completed for a composite key whose parts are set and are
\* named in only.
C6_CompositeUpdateDone ==
    /\ spc = "done" /\ stmt.kind = "update" /\ composite_key
    /\ PkFieldSet(TRUE) \subseteq sonly
    /\ PkFieldSet(TRUE) \subseteq DOMAIN data
    /\ "name" \in DOMAIN stmt.assign

\* C7: a save of an instance whose key is null, or with force_insert, issues
\* an insert, reports one row, and leaves the instance's primary key equal to
\* the key of the inserted row; the previous key is kept only when no key is
\* resolved, which can be the case only without a returning clause.
C7_InsertAdoptsKey ==
    (spc = "done" /\ (sprevPk = PyNone \/ sforce)) =>
        /\ stmt.kind = "insert"
        /\ sres.rows = 1
        /\ \/ GetPkValue(data, composite_key) = sinserted
           \/ ~insert_returning /\ GetPkValue(data, composite_key) = sprevPk

\* An insert has completed for an instance whose key was null.
C7_InsertDone ==
    spc = "done" /\ sprevPk = PyNone /\ stmt.kind = "insert"

\* C8: right after a save that completed, on the insert path and on the
\* update path, also when the update affected no row, the dirty set is empty.
C8_DirtyClearedAfterSave ==
    spc = "done" => dirty = {}

\* An update that affected no row has completed for an instance that had
\* dirty fields.
C8_ZeroRowUpdateDone ==
    /\ spc = "done" /\ stmt.kind = "update" /\ sres.rows = 0
    /\ sdirty0 # {}

(***************************************************************************)
(* Properties of execute_sql (of SpecExec)                                 *)
(***************************************************************************)
\* C9: when require_commit is true and the database is in autocommit mode the
\* statement runs in a single-statement transaction that is committed before
\* the cursor is delivered; in every other case the statement runs directly
\* and nothing is begun or committed.
C9_TransactionIffCommitAndAutocommit ==
    epc # "idle" =>
        IF erc /\ eac
        THEN /\ eres.kind = "cursor" => eops = <<"BEGIN", "STMT", "COMMIT">>
             /\ eops # <<>> => eops[1] = "BEGIN"
        ELSE /\ eres.kind = "cursor" => eops = <<"STMT">>
             /\ \A i \in DOMAIN eops : eops[i] = "STMT"

\* A cursor has been delivered for a statement that ran in a transaction.
C9_CommittedCursor ==
    eres.kind = "cursor" /\ erc /\ eac /\ epc = "delivered"

\* C10: for every error the backend raises the hook is consulted with that
\* error; when it propagates the caller receives that error, when it
\* suppresses execute_sql delivers no error.
C10_HookDecides ==
    (epc = "delivered" /\ eraised # "none") =>
        /\ hookSeen = <<eraised>>
        /\ propagate => eres = Error(eraised)
        /\ ~propagate => eres.kind # "error"

\* The backend raised an error and the hook suppressed it.
C10_Suppressed ==
    epc = "delivered" /\ eraised # "none" /\ ~propagate


(***************************************************************************)
(* Properties of select and raw queries (of SpecQuery)                     *)
(***************************************************************************)
\* C11: with execute() calls and dirty marks on one query taken one after
\* the other, execute() sends a statement to the backend only if the query
\* was never executed or has been marked dirty since its last execution;
\* every other execute() call, also one whose cached result has no rows,
\* delivers the cached wrapper without a round trip.
C11_ExecuteOnlyWhenStale ==
    (~qraced /\ qop.name = "execute")
    => /\ qop.issued => qop.needed
       /\ (qpc = "done" /\ ~qop.issued)
          => (qop.prior.t = "wrapper" /\ qres = Value(qop.prior))

\* execute() has been called on a select query that was executed before,
\* has not been changed since, and holds a wrapper without rows.
C11_EmptyCachedExecute ==
    /\ ~qraced
    /\ qkind = "select"
    /\ qop.name = "execute"
    /\ ~qop.needed
    /\ qop.prior.t = "wrapper"
    /\ qop.prior.rows = <<>>

\* The operation has run to its end and its statement, if it sent one, did
\* not fail at the backend.
Completed(name) ==
    /\ qpc = "done"
    /\ qop.name = name
    /\ ~(qres.kind = "error" /\ qres.err \in BackendErrors)

\* C12: first() delivers nothing on a result without rows and the first row
\* otherwise; get() fails with DoesNotExist when no row matches and
\* delivers the first row otherwise; exists() delivers true exactly when
\* get() on the same query and the same rows succeeds.
C12_FirstGetExists ==
    /\ Completed("first")
       => /\ q_qr.rows = <<>> => qres = Value(PyNone)
          /\ q_qr.rows # <<>> => qres = RowResult(q_qr.rows[1])
    /\ Completed("get")
       => /\ dbrows = <<>> => qres = Error("DoesNotExist")
          /\ dbrows # <<>> => qres = RowResult(dbrows[1])
    /\ Completed("exists")
       => (qres.kind = "bool" /\ (qres.b <=> (dbrows # <<>>)))

\* first() has delivered from a result of two different rows.
C12_FirstOfTwoRows ==
    /\ Completed("first")
    /\ Len(q_qr.rows) > 1
    /\ q_qr.rows[1] # q_qr.rows[2]
    /\ qres.kind = "row"

\* C13: scalar(convert=True) completes and delivers the value that
\* scalar(convert=False) with the same as_tuple delivers on the same query
\* and the same rows, for select and raw queries alike.
C13_ScalarConvertAgrees ==
    (Completed("scalar") /\ qop.convert)
    => /\ qres.kind = "value"
       /\ qres = ScalarReturn(FetchOne(dbrows), qop.as_tuple)

\* scalar(convert=True, as_tuple=False) has been called on a select query
\* whose statement selects at least one row, and has delivered.
C13_ConvertCalled ==
    /\ Completed("scalar")
    /\ qop.convert
    /\ ~qop.as_tuple
    /\ qkind = "select"
    /\ dbrows # <<>>

\* C16: in every reachable state of a select query, also one reached by
\* marking the query dirty while execute() is suspended, a wrapper that is
\* cached while the dirty flag is false was produced from the statement of
\* the query's current state, and a dirty mark is never lost: the flag stays
\* set until a statement of the marked state is sent, and execute() called
\* after the mark sends one.
C16_CacheMatchesState ==
    qkind = "select"
    => /\ (q_qr # PyNone /\ ~q_dirty) => q_qr.ver = qver
       /\ qmarked => q_dirty
       /\ (qop.name \in {"execute", "first"} /\ qop.needed) => qop.issued

\* execute() has delivered after the query was marked dirty while it was
\* suspended.
C16_MarkedWhileSuspended ==
    /\ qkind = "select"
    /\ qraced
    /\ qpc = "done"
    /\ qop.name = "execute"
    /\ qres.kind = "value"


\* C19: scalar() without conversion delivers a value on every path: with at
\* least one row the first column of the first row when as_tuple is false
\* and the whole first row when it is true, and None without rows; for
\* select and raw queries.
C19_ScalarDeliversValue ==
    (Completed("scalar") /\ ~qop.convert)
    => qres = IF dbrows = <<>> THEN Value(PyNone)
              ELSE IF qop.as_tuple THEN Value(PyList(dbrows[1]))
              ELSE Value(PyInt(dbrows[1][1]))

\* scalar(as_tuple=True) without conversion has delivered for a statement
\* that selects at least one row.
C19_TupleAsked ==
    /\ Completed("scalar")
    /\ ~qop.convert
    /\ qop.as_tuple
    /\ dbrows # <<>>

(***************************************************************************)
(* Properties of the key an insert resolves (of SpecSave)                  *)
(***************************************************************************)
\* C14: on a backend with a returning clause, the value the single-row
\* insert delivers is the primary key of the row it inserted: a scalar for a
\* single-column key, and for a composite key the list of the values of the
\* key fields in the order the model declares them.
C14_ReturningKey ==
    (spc = "done" /\ stmt.kind = "insert" /\ insert_returning)
    => /\ pk_from_cursor = sinserted
       /\ ~composite_key => pk_from_cursor.t = "int"
       /\ composite_key
          => /\ pk_from_cursor.t = "list"
             /\ Len(pk_from_cursor.v) = Len(PkFieldNames(TRUE))
             /\ \A i \in 1..Len(PkFieldNames(TRUE)) :
                    pk_from_cursor.v[i] = stmt.assign[PkFieldNames(TRUE)[i]]

\* An insert with a returning clause has completed for a composite key
\* whose two parts differ.
C14_CompositeReturned ==
    /\ spc = "done" /\ stmt.kind = "insert" /\ insert_returning
    /\ composite_key
    /\ stmt.assign["a"] # stmt.assign["b"]

\* C17: on a backend without a returning clause, the value the single-row
\* insert delivers is a scalar, the current value of the key column's
\* sequence (the key of the new row when the backend drew it), when the
\* column has a sequence, and None when it has none; in that case save
\* leaves the primary key of the instance as it was.
C17_KeyWithoutReturning ==
    (spc = "done" /\ stmt.kind = "insert" /\ ~insert_returning)
    => IF pk_sequence
       THEN /\ pk_from_cursor.t = "int"
            /\ "id" \notin DOMAIN stmt.assign => pk_from_cursor = sinserted
       ELSE /\ pk_from_cursor = PyNone
            /\ GetPkValue(data, composite_key) = sprevPk

\* An insert without a returning clause has completed with the key drawn
\* from the column's sequence.
C17_SequenceInsertDone ==
    /\ spc = "done" /\ stmt.kind = "insert" /\ ~insert_returning
    /\ pk_sequence
    /\ "id" \notin DOMAIN stmt.assign

\* C18: the assignment list of the update save issues holds only fields that
\* were changed since the instance was loaded or last saved, and only
\* fields of `only` when it is given; an unchanged field is not written.
C18_UpdateAssignsOnlyChanged ==
    stmt.kind = "update"
    => /\ DOMAIN stmt.assign \subseteq sdirty0
       /\ sonly # {} => DOMAIN stmt.assign \subseteq sonly

\* save has issued an update for an instance that holds a value for a field
\* that is not a key field and was not changed since the last save.
C18_UnchangedFieldHeld ==
    /\ stmt.kind = "update"
    /\ sonly = {}
    /\ \E f \in DOMAIN data : f \notin PkFieldSet(composite_key) /\ f \notin sdirty0

(***************************************************************************)
(* Properties of a failing delete_instance (of SpecDelete)                 *)
(***************************************************************************)
\* C20: when the statement of a dependency fails during a recursive
\* delete_instance, the error is delivered, no statement of a remaining
\* dependency and no delete of the root row is issued, the root row is
\* still there, what the completed statements did stays done, and the
\* relations not reached hold the rows they held.
C20_FailureStopsDelete ==
    \A i \in DOMAIN dlog :
        (dlog[i].ev = "failed" /\ dlog[i].rel # 0)
        => /\ dpc = "failed"
           /\ dres.kind = "error"
           /\ i = Len(dlog)
           /\ \A j \in DOMAIN dlog : dlog[j] # RootIssued
           /\ InstancePk \in rootRows
           /\ \A k \in DOMAIN deps :
                 LET r == deps[k].rel
                 IN IF \E j \in DOMAIN dlog : dlog[j] = DepCompleted(r)
                    THEN /\ \A row \in depRows[r] : row.ref # InstancePk
                         /\ (deps[k].null /\ ~dnullable)
                            => \A row \in depRows0[r] :
                                  row.ref = InstancePk
                                  => [id |-> row.id, ref |-> PyNone] \in depRows[r]
                    ELSE depRows[r] = depRows0[r]

\* The statement of a dependency has failed after the statement of another
\* dependency had completed and changed rows.
C20_FailedAfterCompleted ==
    /\ dpc = "failed"
    /\ dlog # <<>>
    /\ dlog[Len(dlog)].ev = "failed" /\ dlog[Len(dlog)].rel # 0
    /\ \E k \in DOMAIN deps :
          /\ \E j \in DOMAIN dlog : dlog[j] = DepCompleted(deps[k].rel)
          /\ depRows[deps[k].rel] # depRows0[deps[k].rel]

(***************************************************************************)
(* Properties of delivery and round trips (of SpecGoc)                     *)
(***************************************************************************)
\* C15: an operation delivers its value or error only after every backend
\* round trip it started has finished; here, a get_or_create call that has
\* delivered has no create of its own still running at the backend.
C15_NoRoundTripLeftRunning ==
    \A p \in Callers : gpc[p] = "done" => bg[p] # "pending"

\* A get_or_create call that started a create has delivered.
C15_DeliveredAfterCreate ==
    \E p \in Callers : gpc[p] = "done" /\ gcreates[p] = 1

====
